---- MODULE Spec2Model ----
(***************************************************************************)
(* Model of the run-partitioned feature pipeline of main.py and            *)
(* feature_engineering.py.                                                 *)
(*                                                                         *)
(* A pandas cell is a triple <<kind, n, d>>:                               *)
(*   <<"num", n, d>>   the finite float n/d (d > 0, lowest terms)          *)
(*   <<"nan", 0, 1>>   NaN / unobserved                                    *)
(*   <<"inf", 0, 1>>, <<"ninf", 0, 1>>   +infinity, -infinity              *)
(*   <<"sqrt", n, d>>  the irrational square root of n/d                   *)
(*   <<"dt64", t, 1>>  a datetime64 value, t ticks after the epoch         *)
(* A column name is the sequence of its characters, so that startswith,    *)
(* endswith, slicing and concatenation are computed as Python does.        *)
(* A DataFrame is [columns |-> sequence of names, data |-> name -> series].*)
(***************************************************************************)
EXTENDS Integers, Sequences, FiniteSets, TLC

\* ---------------------------------------------------------------- bounds
\* longest run (rows of a wide frame) drawn for add_engineered_features
MaxRows == 2
\* measurement values are drawn from 0..MaxVal
MaxVal == 1
\* times are drawn from 0..MaxTick (ticks of the datetime64 clock)
MaxTick == 2
\* ticks of the datetime64 clock per unit datetime.timestamp() can tell apart
TicksPerStamp == 2
\* units of datetime.timestamp() resolution per second
StampsPerSecond == 2
\* most rows of the long-format input table drawn for main
MaxMeas == 2

\* ------------------------------------------------------------ float cells
NaN == <<"nan", 0, 1>>
Inf == <<"inf", 0, 1>>
NInf == <<"ninf", 0, 1>>

AbsInt(n) == IF n < 0 THEN -n ELSE n

RECURSIVE Gcd(_, _)
Gcd(a, b) == IF b = 0 THEN a ELSE Gcd(b, a % b)

\* the float n/d
Rat(n, d) ==
    LET s == IF d < 0 THEN -1 ELSE 1
        g == Gcd(AbsInt(n), AbsInt(d))
    IN  <<"num", (s * n) \div g, (s * d) \div g>>

Num(n) == <<"num", n, 1>>
Zero == Num(0)
IsNum(a) == a[1] = "num"
IsNaN(a) == a[1] = "nan"
Sign(a) == IF a[1] = "inf" THEN 1
           ELSE IF a[1] = "ninf" THEN -1
           ELSE IF a[2] > 0 THEN 1 ELSE IF a[2] < 0 THEN -1 ELSE 0
Signed(s) == IF s > 0 THEN Inf ELSE IF s < 0 THEN NInf ELSE NaN

\* IEEE a + b
FAdd(a, b) ==
    IF IsNaN(a) \/ IsNaN(b) THEN NaN
    ELSE IF IsNum(a) /\ IsNum(b) THEN Rat(a[2] * b[3] + b[2] * a[3], a[3] * b[3])
    ELSE IF IsNum(a) THEN b
    ELSE IF IsNum(b) THEN a
    ELSE IF a = b THEN a ELSE NaN

FNeg(a) == IF a[1] = "inf" THEN NInf
           ELSE IF a[1] = "ninf" THEN Inf
           ELSE IF IsNaN(a) THEN NaN ELSE Rat(-a[2], a[3])

\* IEEE a - b
FSub(a, b) == FAdd(a, FNeg(b))

\* IEEE a / b; x / 0 is +-inf for x # 0 and NaN for x = 0
FDiv(a, b) ==
    IF IsNaN(a) \/ IsNaN(b) THEN NaN
    ELSE IF IsNum(b) /\ b[2] = 0 THEN Signed(Sign(a))
    ELSE IF IsNum(a) /\ IsNum(b) THEN Rat(a[2] * b[3], a[3] * b[2])
    ELSE IF IsNum(a) THEN Zero
    ELSE IF IsNum(b) THEN Signed(Sign(a) * Sign(b))
    ELSE NaN

\* Series.pow(2) on one cell
FSq(a) ==
    IF IsNaN(a) THEN NaN
    ELSE IF IsNum(a) THEN Rat(a[2] * a[2], a[3] * a[3])
    ELSE Inf

ISqrt(n) == CHOOSE r \in 0..n : r * r <= n /\ (r + 1) * (r + 1) > n
IsSquare(n) == ISqrt(n) * ISqrt(n) = n

\* Series.pow(0.5) on one non-negative cell
FSqrt(a) ==
    IF IsNaN(a) THEN NaN
    ELSE IF ~IsNum(a) THEN Inf
    ELSE IF IsSquare(a[2]) /\ IsSquare(a[3]) THEN Rat(ISqrt(a[2]), ISqrt(a[3]))
    ELSE <<"sqrt", a[2], a[3]>>

\* Series.abs() on one cell
FAbs(a) ==
    IF IsNum(a) THEN Rat(AbsInt(a[2]), a[3])
    ELSE IF a[1] = "ninf" THEN Inf ELSE a

\* ----------------------------------------------------------------- series
\* Series.shift(1)
Shift(s) == [i \in 1..Len(s) |-> IF i = 1 THEN NaN ELSE s[i - 1]]

\* the fillna(0) forgotten
FillNa0_forgotten(s) == s

\* Series.fillna(0)
FillNa0(s) == [i \in 1..Len(s) |-> IF IsNaN(s[i]) THEN Zero ELSE s[i]]

SeriesSub(s, t) == [i \in 1..Len(s) |-> FSub(s[i], t[i])]
SeriesDiv(s, t) == [i \in 1..Len(s) |-> FDiv(s[i], t[i])]

\* ffill(limit=1): only the cell right after an observed one is filled
FFill_limit1(s) ==
    [i \in 1..Len(s) |-> IF IsNaN(s[i]) /\ i > 1 THEN s[i - 1] ELSE s[i]]

\* Series.ffill(): the nearest preceding observed cell
RECURSIVE FFillAt(_, _)
FFillAt(s, i) ==
    IF ~IsNaN(s[i]) \/ i = 1 THEN s[i] ELSE FFillAt(s, i - 1)
FFill(s) == [i \in 1..Len(s) |-> FFillAt(s, i)]

\* Series.bfill(): the nearest following observed cell
RECURSIVE BFillAt(_, _)
BFillAt(s, i) ==
    IF ~IsNaN(s[i]) \/ i = Len(s) THEN s[i] ELSE BFillAt(s, i + 1)
BFill(s) == [i \in 1..Len(s) |-> BFillAt(s, i)]

\* ------------------------------------------------------------ column names
Time == <<"t", "i", "m", "e">>
Timestamp == <<"t", "i", "m", "e", "s", "t", "a", "m", "p">>
Dt == <<"d", "t">>

\* str.startswith / str.endswith
StartsWith(s, p) == Len(s) >= Len(p) /\ SubSeq(s, 1, Len(p)) = p
EndsWith(s, p) == Len(s) >= Len(p) /\ SubSeq(s, Len(s) - Len(p) + 1, Len(s)) = p

\* str(col)[1:]
Tail1(s) == SubSeq(s, 2, Len(s))

Digit(k) == <<"0", "1", "2", "3", "4", "5", "6", "7", "8", "9">>[k + 1]

\* str(n) of a non-negative integer
RECURSIVE IntToStr(_)
IntToStr(n) == IF n < 10 THEN <<Digit(n)>> ELSE IntToStr(n \div 10) \o <<Digit(n % 10)>>

\* -------------------------------------------------------------- DataFrames
NRows(df) == Len(df.data[Time])

InSeq(x, s) == \E i \in 1..Len(s) : s[i] = x
SeqSet(s) == {s[i] : i \in 1..Len(s)}

\* df[col] = series : replaces the column, or appends it as the last one
SetCol(df, col, s) ==
    [columns |-> IF InSeq(col, df.columns) THEN df.columns ELSE Append(df.columns, col),
     data |-> [c \in SeqSet(df.columns) \cup {col} |-> IF c = col THEN s ELSE df.data[c]]]

\* df[[c1, c2, ...]] : a new frame of the named columns
Select(df, cols) ==
    [columns |-> cols, data |-> [c \in SeqSet(cols) |-> df.data[c]]]

NoFrame == [columns |-> <<>>, data |-> <<>>]

\* pd.merge(left, right): inner join on the columns the two frames share, in the
\* order of the left rows; key cells match when equal (NaN keys match NaN keys)
Merge(left, right) ==
    LET common == SelectSeq(left.columns, LAMBDA c : InSeq(c, right.columns))
        extra == SelectSeq(right.columns, LAMBDA c : ~InSeq(c, left.columns))
        n == NRows(left)
        m == NRows(right)
        L(k) == ((k - 1) \div m) + 1
        R(k) == ((k - 1) % m) + 1
        pairs == SelectSeq([k \in 1..(n * m) |-> k],
                           LAMBDA k : \A c \in SeqSet(common) :
                                         left.data[c][L(k)] = right.data[c][R(k)])
    IN  [columns |-> left.columns \o extra,
         data |-> [c \in SeqSet(left.columns) \cup SeqSet(extra) |->
                     [r \in 1..Len(pairs) |->
                        IF InSeq(c, left.columns) THEN left.data[c][L(pairs[r])]
                        ELSE right.data[c][R(pairs[r])]]]]

\* --------------------------------------------------- feature_engineering.py
\* row-wise sum of the squares of the named columns, NaN cells skipped
RECURSIVE SumSq(_, _, _)
SumSq(df, cols, i) ==
    IF cols = <<>> THEN Zero
    ELSE LET sq == FSq(df.data[Head(cols)][i])
         IN  FAdd(IF IsNaN(sq) THEN Zero ELSE sq, SumSq(df, Tail(cols), i))

get_vector_total(df, cols) ==
    [i \in 1..NRows(df) |-> FSqrt(SumSq(df, cols, i))]

get_variable_change_over_time(df, col) ==
    FillNa0(SeriesDiv(SeriesSub(df.data[col], Shift(df.data[col])), df.data[Dt]))

\* (df[col] - df[col].shift(1)).fillna(0)
PositionChange(df, col) ==
    FillNa0(SeriesSub(df.data[col], Shift(df.data[col])))

IsPositionCol(col) ==
    StartsWith(col, <<"x">>) \/ StartsWith(col, <<"y">>) \/ StartsWith(col, <<"z">>)
IsForceCol(col) ==
    StartsWith(col, <<"f", "x">>) \/ StartsWith(col, <<"f", "y">>)
        \/ StartsWith(col, <<"f", "z">>)
IsVelocityCol(col) ==
    StartsWith(col, <<"v", "x">>) \/ StartsWith(col, <<"v", "y">>)
        \/ StartsWith(col, <<"v", "z">>)

\* the three stage-2 transforms, in the order of the bag
Transforms == <<"velocity", "force", "position">>
Kinds == SeqSet(Transforms)

\* the columns a transform's loop selects
Matches(kind, col) ==
    IF kind = "force" THEN IsForceCol(col) ELSE IsPositionCol(col)

\* the position-delta loop left with the velocity loop's 'v' prefix
NewCol_copied_prefix(kind, col) ==
    IF kind = "force" THEN <<"f">> \o Tail1(col) ELSE <<"v">> \o col

\* the derived series assigned to the column it was derived from
NewCol_no_prefix(kind, col) ==
    IF kind = "force" THEN <<"f">> \o Tail1(col) ELSE col

\* cur_vcol, cur_fcol, cur_dcol
NewCol(kind, col) ==
    CASE kind = "velocity" -> <<"v">> \o col
      [] kind = "force" -> <<"f">> \o Tail1(col)
      [] kind = "position" -> <<"d">> \o col

\* the series a transform's loop computes for a column
Derive(kind, df, col) ==
    IF kind = "velocity" THEN get_variable_change_over_time(df, col)
    ELSE PositionChange(df, col)

\* 'v1', 'f2', ...
MagCol(kind, g) ==
    <<CASE kind = "velocity" -> "v" [] kind = "force" -> "f" [] kind = "position" -> "d",
      Digit(g)>>

\* the first column at or after position i that the loop selects, 0 when none
NextMatch(kind, cols, i) ==
    IF \E j \in i..Len(cols) : Matches(kind, cols[j])
    THEN CHOOSE j \in i..Len(cols) :
            Matches(kind, cols[j]) /\ \A k \in i..(j - 1) : ~Matches(kind, cols[k])
    ELSE 0

\* a transform's local variables when it is called; rd and wr are the columns of
\* the frame it has read and written so far
Local0 == [pc |-> "start", cols |-> <<>>, i |-> 1, g1 |-> <<>>, g2 |-> <<>>,
           tmp |-> <<>>, ret |-> NoFrame, rd |-> {}, wr |-> {}]

\* the group-1 magnitude added without the "if x1cols:" test
AfterLoop_unguarded(l) == "mag1"

AfterMag1(l) == IF l.g2 # <<>> THEN "mag2" ELSE "ret"

AfterLoop(l) == IF l.g1 # <<>> THEN "mag1" ELSE AfterMag1(l)
Advance(kind, l) ==
    IF NextMatch(kind, l.cols, l.i) # 0 THEN [l EXCEPT !.pc = "loop"]
    ELSE [l EXCEPT !.pc = AfterLoop(l)]

\* x1cols.append(cur) / x2cols.append(cur) by the trailing digit
Grouped(l, cur) ==
    IF EndsWith(cur, <<"1">>) THEN [l EXCEPT !.g1 = Append(l.g1, cur)]
    ELSE IF EndsWith(cur, <<"2">>) THEN [l EXCEPT !.g2 = Append(l.g2, cur)]
    ELSE l

\* the loop of add_total_force_features: it only collects names
RECURSIVE ForceLoop(_)
ForceLoop(l) ==
    LET j == NextMatch("force", l.cols, l.i)
    IN  IF j = 0 THEN l
        ELSE ForceLoop([Grouped(l, NewCol("force", l.cols[j])) EXCEPT !.i = j + 1])

\* the columns the derivation of one series reads
DeriveReads(kind, col) == IF kind = "velocity" THEN {col, Dt} ELSE {col}

\* One column-level step of a stage-2 transform with locals l on frame fr:
\* reading the column index, reading the columns of one derived series,
\* writing one column, or building the returned frame.
TransformStep(kind, l, fr) ==
    CASE l.pc = "start" ->
            LET s == [l EXCEPT !.cols = fr.columns, !.i = 1]
            IN  [l |-> Advance(kind, IF kind = "force" THEN ForceLoop(s) ELSE s),
                 fr |-> fr]
      [] l.pc = "loop" ->
            LET j == NextMatch(kind, l.cols, l.i)
            IN  [l |-> [l EXCEPT !.i = j, !.tmp = Derive(kind, fr, l.cols[j]),
                                 !.rd = l.rd \cup DeriveReads(kind, l.cols[j]),
                                 !.pc = "write"],
                 fr |-> fr]
      [] l.pc = "write" ->
            LET cur == NewCol(kind, l.cols[l.i])
                s == [Grouped(l, cur) EXCEPT !.i = l.i + 1, !.tmp = <<>>,
                                             !.wr = l.wr \cup {cur}]
            IN  [l |-> Advance(kind, s), fr |-> SetCol(fr, cur, l.tmp)]
      [] l.pc = "mag1" ->
            [l |-> [l EXCEPT !.tmp = get_vector_total(fr, l.g1),
                             !.rd = l.rd \cup SeqSet(l.g1), !.pc = "wmag1"],
             fr |-> fr]
      [] l.pc = "wmag1" ->
            LET s == [l EXCEPT !.g1 = Append(l.g1, MagCol(kind, 1)), !.tmp = <<>>,
                               !.wr = l.wr \cup {MagCol(kind, 1)}]
            IN  [l |-> [s EXCEPT !.pc = AfterMag1(s)],
                 fr |-> SetCol(fr, MagCol(kind, 1), l.tmp)]
      [] l.pc = "mag2" ->
            [l |-> [l EXCEPT !.tmp = get_vector_total(fr, l.g2),
                             !.rd = l.rd \cup SeqSet(l.g2), !.pc = "wmag2"],
             fr |-> fr]
      [] l.pc = "wmag2" ->
            [l |-> [l EXCEPT !.g2 = Append(l.g2, MagCol(kind, 2)), !.tmp = <<>>,
                             !.wr = l.wr \cup {MagCol(kind, 2)}, !.pc = "ret"],
             fr |-> SetCol(fr, MagCol(kind, 2), l.tmp)]
      [] l.pc = "ret" ->
            [l |-> [l EXCEPT !.ret = Select(fr, <<Time>> \o l.g1 \o l.g2),
                             !.rd = l.rd \cup {Time} \cup SeqSet(l.g1) \cup SeqSet(l.g2),
                             !.pc = "done"],
             fr |-> fr]

\* a transform run from locals l to its return with nothing else touching fr
RECURSIVE RunFrom(_, _, _)
RunFrom(kind, l, fr) ==
    IF l.pc = "done" THEN [l |-> l, fr |-> fr]
    ELSE LET s == TransformStep(kind, l, fr) IN RunFrom(kind, s.l, s.fr)

\* func(df) called alone: the frame as it leaves df, and the frame returned
add_velocity_features(df) == RunFrom("velocity", Local0, df)
add_total_force_features(df) == RunFrom("force", Local0, df)
add_position_change_features(df) == RunFrom("position", Local0, df)

RunAlone(kind, df) ==
    CASE kind = "velocity" -> add_velocity_features(df)
      [] kind = "force" -> add_total_force_features(df)
      [] kind = "position" -> add_position_change_features(df)

\* the loop of add_acceleration_features over the columns df had at entry
RECURSIVE AccelLoop(_, _, _, _)
AccelLoop(df, cols, i, l) ==
    IF i > Len(cols) THEN [df |-> df, l |-> l]
    ELSE IF ~IsVelocityCol(cols[i]) THEN AccelLoop(df, cols, i + 1, l)
    ELSE LET cur == <<"a">> \o Tail1(cols[i])
         IN  AccelLoop(SetCol(df, cur, get_variable_change_over_time(df, cols[i])),
                       cols, i + 1, Grouped(l, cur))

add_acceleration_features(df) ==
    LET r == AccelLoop(df, df.columns, 1, Local0)
        d1 == IF r.l.g1 # <<>>
              THEN SetCol(r.df, <<"a", "1">>, get_vector_total(r.df, r.l.g1))
              ELSE r.df
    IN  IF r.l.g2 # <<>>
        THEN SetCol(d1, <<"a", "2">>, get_vector_total(d1, r.l.g2))
        ELSE d1

\* datetime.timestamp(x): seconds as a float, finer ticks dropped
ToTimestamp(t) == Rat(t[2] \div TicksPerStamp, StampsPerSecond)

\* stage 1 of add_engineered_features: df['timestamp'] and df['dt']
Stage1(df) ==
    LET ts == [i \in 1..NRows(df) |-> ToTimestamp(df.data[Time][i])]
        d == SetCol(df, Timestamp, ts)
    IN  SetCol(d, Dt, SeriesSub(ts, Shift(ts)))

\* the two merges of the transforms' results, then the merge onto df
MergeAll(df, vdf, adf, pdf) == Merge(df, Merge(Merge(vdf, adf), pdf))

\* ------------------------------------------------------------------- state
VARIABLES
    input,            \* main: the long-format table read from the parquet file
    main_pc,          \* main: where main() is
    run_uuid_df_map,  \* main: the result of get_dfs_by_run_uuid
    task,             \* main: per run, the state and results of its pipeline task
    summary,          \* main: the records written to output/run_summary.csv
    df_in,            \* add_engineered_features: the frame it was called with
    df,               \* add_engineered_features: the frame its variable df names
    scheduler,        \* the dask scheduler that runs the bag of three transforms
    frames,           \* per transform, its unpickled copy of df ("processes")
    th,               \* per transform, its local variables
    out,              \* add_engineered_features: the frame it returns
    fe_pc             \* add_engineered_features: where it is

main_vars == <<input, main_pc, run_uuid_df_map, task, summary>>
fe_vars == <<df_in, df, scheduler, frames, th, out, fe_pc>>
vars == <<input, main_pc, run_uuid_df_map, task, summary,
          df_in, df, scheduler, frames, th, out, fe_pc>>

\* ------------------------------------------------------------ drawn inputs
\* '_'.join(map(str, (field, robot_id)))
ColName(field, robot_id) == field \o <<"_">> \o IntToStr(robot_id)

\* (field, robot_id) columns of a wide frame, in the order pivot_table gives them
ColumnPool == <<ColName(<<"f", "x">>, 1), ColName(<<"t", "e", "m", "p">>, 1),
                ColName(<<"x">>, 1), ColName(<<"x">>, 3),
                ColName(<<"y">>, 1), ColName(<<"y">>, 2)>>

\* one or two columns of the pool, in that order
ColumnLists ==
    {<<ColumnPool[i]>> : i \in 1..Len(ColumnPool)}
        \cup {<<ColumnPool[p[1]], ColumnPool[p[2]]>> :
                p \in {q \in (1..Len(ColumnPool)) \X (1..Len(ColumnPool)) : q[1] < q[2]}}

\* strictly increasing times: the index of a pivoted frame
RECURSIVE TimeLists(_)
TimeLists(n) ==
    IF n = 0 THEN {<<>>}
    ELSE {Append(ts, t) : ts \in {x \in TimeLists(n - 1) : Len(x) = n - 1},
                          t \in 0..MaxTick} \cup TimeLists(n - 1)
SortedTimes(n) ==
    {ts \in TimeLists(n) : Len(ts) >= 1 /\ \A i \in 1..(Len(ts) - 1) : ts[i] < ts[i + 1]}

\* a gap-filled wide frame: every cell observed; column k holds a + b * row
WideFrame(cols, ts, ab) ==
    [columns |-> <<Time>> \o cols,
     data |-> [c \in {Time} \cup SeqSet(cols) |->
                 IF c = Time THEN [i \in 1..Len(ts) |-> <<"dt64", ts[i], 1>>]
                 ELSE LET k == CHOOSE k \in 1..Len(cols) : cols[k] = c
                      IN  [i \in 1..Len(ts) |->
                             Num((ab[k][1] + ab[k][2] * i) % (MaxVal + 1))]]]

WideFrames ==
    {WideFrame(cols, ts, ab) :
        cols \in ColumnLists, ts \in SortedTimes(MaxRows),
        ab \in [1..2 -> (0..MaxVal) \X (0..MaxVal)]}

Schedulers == {"processes", "threads"}

\* --------------------------------------------- add_engineered_features(df)
\* the frame a transform's parameter df names
ArgFrame(kind) == IF scheduler = "threads" THEN df ELSE frames[kind]

MainIdle ==
    /\ input = <<>> /\ main_pc = "idle" /\ run_uuid_df_map = <<>>
    /\ task = <<>> /\ summary = <<>>

FEInit ==
    /\ MainIdle
    /\ df_in \in WideFrames
    /\ df = df_in
    /\ scheduler \in Schedulers
    /\ frames = [k \in Kinds |-> NoFrame]
    /\ th = [k \in Kinds |-> Local0]
    /\ out = NoFrame
    /\ fe_pc = "stage1"

\* lines 155-157: timestamp and dt, then the bag of the three transforms; under
\* the "processes" scheduler each task unpickles its own copy of df
Stage1Step ==
    /\ fe_pc = "stage1"
    /\ df' = Stage1(df)
    /\ frames' = [k \in Kinds |-> IF scheduler = "processes" THEN Stage1(df) ELSE NoFrame]
    /\ fe_pc' = "stage2"
    /\ UNCHANGED <<df_in, scheduler, th, out>>
    /\ UNCHANGED main_vars

\* the effect of a transform's step on the frame it was given
Applied(kind, s) ==
    /\ th' = [th EXCEPT ![kind] = s.l]
    /\ IF scheduler = "threads"
       THEN df' = s.fr /\ UNCHANGED frames
       ELSE frames' = [frames EXCEPT ![kind] = s.fr] /\ UNCHANGED df
    /\ UNCHANGED <<df_in, scheduler, out, fe_pc>>
    /\ UNCHANGED main_vars

\* line 160, func(df): one transform runs from call to return
RunTransform(kind) ==
    /\ fe_pc = "stage2"
    /\ th[kind].pc = "start"
    /\ Applied(kind, RunAlone(kind, ArgFrame(kind)))

\* line 160, func(df): one transform takes one column-level step
StepTransform(kind) ==
    /\ fe_pc = "stage2"
    /\ th[kind].pc # "done"
    /\ Applied(kind, TransformStep(kind, th[kind], ArgFrame(kind)))

\* lines 160-164: the three results are taken and merged
MergeStep ==
    /\ fe_pc = "stage2"
    /\ \A k \in Kinds : th[k].pc = "done"
    /\ df' = MergeAll(df, th["velocity"].ret, th["force"].ret, th["position"].ret)
    /\ fe_pc' = "accel"
    /\ UNCHANGED <<df_in, scheduler, frames, th, out>>
    /\ UNCHANGED main_vars

\* lines 170-171
AccelStep ==
    /\ fe_pc = "accel"
    /\ df' = add_acceleration_features(df)
    /\ out' = add_acceleration_features(df)
    /\ fe_pc' = "done"
    /\ UNCHANGED <<df_in, scheduler, frames, th>>
    /\ UNCHANGED main_vars

Velocity == RunTransform("velocity")
Force == RunTransform("force")
Position == RunTransform("position")

FENext == Stage1Step \/ Velocity \/ Force \/ Position \/ MergeStep \/ AccelStep

SpecFE == FEInit /\ [][FENext]_vars

\* the frames of the column-level runs: a force and a position column, position
\* columns of two groups, a position column of no group; column k holds k + k * row
RaceColumnLists ==
    {<<ColumnPool[1], ColumnPool[3]>>, <<ColumnPool[3], ColumnPool[6]>>,
     <<ColumnPool[4], ColumnPool[5]>>}

RaceFrames ==
    {WideFrame(cols, ts, [k \in 1..2 |-> <<k, k>>]) :
        cols \in RaceColumnLists, ts \in SortedTimes(MaxRows)}

RaceInit ==
    /\ MainIdle
    /\ df_in \in RaceFrames
    /\ df = df_in
    /\ scheduler = "threads"
    /\ frames = [k \in Kinds |-> NoFrame]
    /\ th = [k \in Kinds |-> Local0]
    /\ out = NoFrame
    /\ fe_pc = "stage1"

VelocityStep == StepTransform("velocity")
ForceStep == StepTransform("force")
PositionStep == StepTransform("position")

RaceNext ==
    Stage1Step \/ VelocityStep \/ ForceStep \/ PositionStep \/ MergeStep \/ AccelStep

SpecRace == RaceInit /\ [][RaceNext]_vars

\* lines 161-171 on the results v, f, p of the three transforms and the frame
\* base that df names when they have returned
Finish(base, v, f, p) ==
    add_acceleration_features(MergeAll(base, v.l.ret, f.l.ret, p.l.ret))

Finish3(v, f, p) == Finish(p.fr, v, f, p)

\* the bag under "processes": each transform on its own copy of base
FinishCopies(base) ==
    Finish(base, RunAlone("velocity", base), RunAlone("force", base),
           RunAlone("position", base))

\* the bag under "threads", one transform after the other on the shared frame
AfterForce(v, f) == Finish3(v, f, RunAlone("position", f.fr))
AfterVelocity(v) == AfterForce(v, RunAlone("force", v.fr))

\* add_engineered_features called and run to its return
add_engineered_features(d, sched) ==
    IF sched = "threads"
    THEN AfterVelocity(RunAlone("velocity", Stage1(d)))
    ELSE FinishCopies(Stage1(d))

\* ------------------------------------------------------------------ main.py
Alphabet == <<"a", "b", "c", "d", "e", "f", "g", "h", "i", "j", "k", "l", "m",
              "n", "o", "p", "q", "r", "s", "t", "u", "v", "w", "x", "y", "z">>
CharIdx(c) == CHOOSE i \in 1..Len(Alphabet) : Alphabet[i] = c

\* a < b for strings: the order of the categories of 'field'
RECURSIVE StrLess(_, _)
StrLess(a, b) ==
    IF b = <<>> THEN FALSE
    ELSE IF a = <<>> THEN TRUE
    ELSE IF Head(a) = Head(b) THEN StrLess(Tail(a), Tail(b))
    ELSE CharIdx(Head(a)) < CharIdx(Head(b))

\* (field, robot_id) column keys in the order pivot_table sorts them
PairLess(a, b) == StrLess(a[1], b[1]) \/ (a[1] = b[1] /\ a[2] < b[2])

RECURSIVE SortPairs(_)
SortPairs(S) ==
    IF S = {} THEN <<>>
    ELSE LET m == CHOOSE x \in S : \A y \in S \ {x} : PairLess(x, y)
         IN  <<m>> \o SortPairs(S \ {m})

\* the distinct times in increasing order: the sorted index
RECURSIVE SortTimes(_)
SortTimes(S) ==
    IF S = {} THEN <<>>
    ELSE LET m == CHOOSE x \in S : \A y \in S : x <= y
         IN  <<m>> \o SortTimes(S \ {m})

\* Series.unique(): the distinct values in order of first appearance
RECURSIVE Unique(_)
Unique(s) ==
    IF s = <<>> THEN <<>>
    ELSE LET u == Unique(SubSeq(s, 1, Len(s) - 1))
         IN  IF InSeq(s[Len(s)], u) THEN u ELSE Append(u, s[Len(s)])

\* the filter df['run_uuid'] == run_uuid left out: every key gets the whole table
get_dfs_by_run_uuid_unfiltered(rows) ==
    LET ids == Unique([i \in 1..Len(rows) |-> rows[i].run_uuid])
    IN  [k \in 1..Len(ids) |-> <<ids[k], rows>>]

\* run_uuid -> the rows of that run, as a list of (run_uuid, rows) items
get_dfs_by_run_uuid(rows) ==
    LET ids == Unique([i \in 1..Len(rows) |-> rows[i].run_uuid])
    IN  [k \in 1..Len(ids) |->
           <<ids[k], SelectSeq(rows, LAMBDA r : r.run_uuid = ids[k])>>]

RECURSIVE SumValues(_)
SumValues(s) == IF s = <<>> THEN Zero ELSE FAdd(Num(Head(s).value), SumValues(Tail(s)))

\* pivot_table(index='time', columns=['field', 'robot_id'], values='value'),
\* flattened to 'field_robot_id' names, sorted by time, index reset
convert_to_features(rows) ==
    LET times == SortTimes({rows[i].time : i \in 1..Len(rows)})
        pairs == SortPairs({<<rows[i].field, rows[i].robot_id>> : i \in 1..Len(rows)})
        names == [k \in 1..Len(pairs) |-> ColName(pairs[k][1], pairs[k][2])]
        Cell(t, p) ==
            LET hit == SelectSeq(rows, LAMBDA r : r.time = t /\ r.field = p[1]
                                                    /\ r.robot_id = p[2])
            IN  IF hit = <<>> THEN NaN ELSE FDiv(SumValues(hit), Num(Len(hit)))
    IN  [columns |-> <<Time>> \o names,
         data |-> [c \in {Time} \cup SeqSet(names) |->
                     IF c = Time
                     THEN [i \in 1..Len(times) |-> <<"dt64", times[i], 1>>]
                     ELSE LET k == CHOOSE k \in 1..Len(names) : names[k] = c
                          IN  [i \in 1..Len(times) |-> Cell(times[i], pairs[k])]]]

\* df.ffill().bfill()
match_timestamps_with_measurements(d) ==
    [columns |-> d.columns,
     data |-> [c \in DOMAIN d.data |-> BFill(FFill(d.data[c]))]]

\* Series.abs().sum(): the sum of the rational and infinite terms, and the
\* irrational terms it cannot be folded with
RECURSIVE AbsSum(_)
AbsSum(s) ==
    IF s = <<>> THEN [rat |-> Zero, surds |-> <<>>]
    ELSE LET r == AbsSum(Tail(s))
             a == FAbs(Head(s))
         IN  IF IsNaN(a) THEN r
             ELSE IF a[1] = "sqrt" THEN [r EXCEPT !.surds = <<a>> \o r.surds]
             ELSE [r EXCEPT !.rat = FAdd(a, r.rat)]

\* Series.min() / Series.max() of the time column, as ticks
MinTick(s) == CHOOSE t \in {s[i][2] : i \in 1..Len(s)} : \A i \in 1..Len(s) : t <= s[i][2]
MaxTickOf(s) == CHOOSE t \in {s[i][2] : i \in 1..Len(s)} : \A i \in 1..Len(s) : t >= s[i][2]

calculate_run_stats(run_uuid, d) ==
    LET run_start_time == MinTick(d.data[Time])
        run_end_time == MaxTickOf(d.data[Time])
    IN  [run_uuid |-> run_uuid,
         run_start_time |-> <<"iso", run_start_time, 1>>,
         run_end_time |-> <<"iso", run_end_time, 1>>,
         total_run_time |-> Rat(run_end_time - run_start_time,
                                TicksPerStamp * StampsPerSecond),
         total_distance_1 |-> IF InSeq(<<"d", "1">>, d.columns)
                              THEN AbsSum(d.data[<<"d", "1">>])
                              ELSE [rat |-> Zero, surds |-> <<>>],
         total_distance_2 |-> IF InSeq(<<"d", "2">>, d.columns)
                              THEN AbsSum(d.data[<<"d", "2">>])
                              ELSE [rat |-> Zero, surds |-> <<>>]]

\* ------------------------------------- match_timestamps_with_measurements
\* most rows of a pivoted frame drawn for the gap filler
MaxFillRows == 3

\* which cells of a pivoted frame are observed: convert_to_features leaves no
\* row and no column without an observation
Masks(n, cols) ==
    {m \in [(1..n) \X (1..Len(cols)) -> BOOLEAN] :
        /\ \A i \in 1..n : \E k \in 1..Len(cols) : m[<<i, k>>]
        /\ \A k \in 1..Len(cols) : \E i \in 1..n : m[<<i, k>>]}

\* a pivoted frame: cell (row i, column k) holds seed + i + k when observed
SparseFrame(cols, ts, m, seed) ==
    [columns |-> <<Time>> \o cols,
     data |-> [c \in {Time} \cup SeqSet(cols) |->
                 IF c = Time THEN [i \in 1..Len(ts) |-> <<"dt64", ts[i], 1>>]
                 ELSE LET k == CHOOSE k \in 1..Len(cols) : cols[k] = c
                      IN  [i \in 1..Len(ts) |->
                             IF m[<<i, k>>] THEN Num((seed + i + k) % (MaxVal + 1))
                             ELSE NaN]]]

FillColumnLists == {<<ColumnPool[1]>>, <<ColumnPool[1], ColumnPool[3]>>}

SparseFrames ==
    UNION {{SparseFrame(cols, ts, m, seed) : m \in Masks(Len(ts), cols), seed \in 0..MaxVal} :
           cols \in FillColumnLists, ts \in SortedTimes(MaxFillRows)}

FillInit ==
    /\ MainIdle
    /\ df_in \in SparseFrames
    /\ df = df_in
    /\ scheduler = "processes"
    /\ frames = <<>>
    /\ th = <<>>
    /\ out = NoFrame
    /\ fe_pc = "fill"

\* line 130: the gap filler applied to the pivoted frame
FillOnce ==
    /\ fe_pc = "fill"
    /\ df' = match_timestamps_with_measurements(df)
    /\ fe_pc' = "filled"
    /\ UNCHANGED <<df_in, scheduler, frames, th, out>>
    /\ UNCHANGED main_vars

\* the gap filler applied to its own result
FillAgain ==
    /\ fe_pc = "filled"
    /\ out' = match_timestamps_with_measurements(df)
    /\ fe_pc' = "refilled"
    /\ UNCHANGED <<df_in, df, scheduler, frames, th>>
    /\ UNCHANGED main_vars

FillNext == FillOnce \/ FillAgain

SpecFill == FillInit /\ [][FillNext]_vars

\* (field, robot_id) of the measurements drawn for main
SensorPool == {<<<<"f", "x">>, 1>>, <<<<"x">>, 1>>, <<<<"x">>, 3>>, <<<<"y">>, 2>>}
RunUuids == {7, 9}

\* the long-format table after preprocess_df: row i has index i and value
\* (seed + i) % (MaxVal + 1); rows come in time order, whole stamps apart
StampTicks == {t \in 0..MaxTick : t % TicksPerStamp = 0}
Draws == SensorPool \X RunUuids \X StampTicks

LongTable(draw, seed) ==
    [i \in 1..Len(draw) |->
       [idx |-> i, time |-> draw[i][3], value |-> (seed + i) % (MaxVal + 1),
        field |-> draw[i][1][1], robot_id |-> draw[i][1][2], run_uuid |-> draw[i][2]]]

TimeOrdered(draw) == \A i \in 1..(Len(draw) - 1) : draw[i][3] <= draw[i + 1][3]

Inputs ==
    UNION {{LongTable(draw, seed) :
              draw \in {d \in [1..n -> Draws] : TimeOrdered(d)}, seed \in 0..MaxVal} :
           n \in 1..MaxMeas}

FEIdle ==
    /\ df_in = NoFrame /\ df = NoFrame /\ frames = <<>> /\ th = <<>>
    /\ out = NoFrame /\ fe_pc = "idle"

NoStats == calculate_run_stats(0, [columns |-> <<Time>>,
                                   data |-> [c \in {Time} |-> <<<<"dt64", 0, 1>>>>]])

MainInit ==
    /\ FEIdle
    /\ scheduler \in Schedulers
    /\ input \in Inputs
    /\ main_pc = "start"
    /\ run_uuid_df_map = <<>>
    /\ task = <<>>
    /\ summary = [written |-> FALSE, records |-> <<>>]

\* lines 126-128: the table is split, and one task per run enters the bag
Partition ==
    /\ main_pc = "start"
    /\ run_uuid_df_map' = get_dfs_by_run_uuid(input)
    /\ task' = [k \in 1..Len(get_dfs_by_run_uuid(input)) |->
                  [pc |-> "pending", wide |-> NoFrame, filled |-> NoFrame,
                   featured |-> NoFrame, file |-> FALSE, stats |-> NoStats]]
    /\ main_pc' = "compute"
    /\ UNCHANGED <<input, summary, scheduler>>
    /\ UNCHANGED <<df_in, df, frames, th, out, fe_pc>>

\* lines 129-133: the five maps of one run, run by a worker. to_csv writes the
\* run's file or raises OSError (written = FALSE); an exception ends the task
RunTask(k, written) ==
    /\ main_pc = "compute"
    /\ task[k].pc = "pending"
    /\ LET run_uuid == run_uuid_df_map[k][1]
           wide == convert_to_features(run_uuid_df_map[k][2])
           filled == match_timestamps_with_measurements(wide)
           featured == add_engineered_features(filled, scheduler)
       IN  task' = [task EXCEPT ![k] =
                IF written
                THEN [pc |-> "done", wide |-> wide, filled |-> filled,
                      featured |-> featured, file |-> TRUE,
                      stats |-> calculate_run_stats(run_uuid, featured)]
                ELSE [pc |-> "failed", wide |-> wide, filled |-> filled,
                      featured |-> featured, file |-> FALSE, stats |-> NoStats]]
    /\ UNCHANGED <<input, main_pc, run_uuid_df_map, summary, scheduler>>
    /\ UNCHANGED <<df_in, df, frames, th, out, fe_pc>>

TaskDone == \E k \in 1..Len(task) : RunTask(k, TRUE)
TaskRaises == \E k \in 1..Len(task) : RunTask(k, FALSE)

\* line 133: compute() re-raises the exception of a failed task; main() has no
\* handler, so it ends there and line 135 is never reached
ComputeRaises ==
    /\ main_pc = "compute"
    /\ \E k \in 1..Len(task) : task[k].pc = "failed"
    /\ main_pc' = "raised"
    /\ UNCHANGED <<input, run_uuid_df_map, task, summary, scheduler>>
    /\ UNCHANGED <<df_in, df, frames, th, out, fe_pc>>

\* lines 133-135: every task returned; the records are written in bag order
WriteSummary ==
    /\ main_pc = "compute"
    /\ \A k \in 1..Len(task) : task[k].pc = "done"
    /\ summary' = [written |-> TRUE, records |-> [k \in 1..Len(task) |-> task[k].stats]]
    /\ main_pc' = "done"
    /\ UNCHANGED <<input, run_uuid_df_map, task, scheduler>>
    /\ UNCHANGED <<df_in, df, frames, th, out, fe_pc>>

MainNext == Partition \/ TaskDone \/ TaskRaises \/ ComputeRaises \/ WriteSummary

Spec == MainInit /\ [][MainNext]_vars

\* ------------------------------------------------- get_dfs_by_run_uuid(df)
\* longer tables of one sensor whose rows differ in run_uuid only, so that the
\* rows of one run lie between the rows of others
MaxPartRows == 4
PartRunUuids == {3, 7, 9}
PartDraws == {<<<<"x">>, 1>>} \X PartRunUuids \X {0}

PartInputs ==
    UNION {{LongTable(draw, 0) : draw \in [1..n -> PartDraws]} : n \in 1..MaxPartRows}

PartInit ==
    /\ FEIdle
    /\ scheduler = "processes"
    /\ input \in PartInputs
    /\ main_pc = "start"
    /\ run_uuid_df_map = <<>>
    /\ task = <<>>
    /\ summary = [written |-> FALSE, records |-> <<>>]

PartNext == Partition

SpecPart == PartInit /\ [][PartNext]_vars

\* ================================================================== claims
ZeroDistance == [rat |-> Zero, surds |-> <<>>]
Failed(k) == task[k].pc = "failed"
Tasks == 1..Len(task)

\* C1 (as stated): when the pipeline of one run fails, main still ends by writing
\* the summary, every other run has completed and its RunStats record is in the
\* summary, and nothing is raised past the fan-out.
C1_FailureIsolated ==
    (main_pc \in {"done", "raised"} /\ \E k \in Tasks : Failed(k))
        => /\ main_pc = "done"
           /\ summary.written
           /\ \A j \in Tasks : ~Failed(j)
                 => task[j].pc = "done" /\ InSeq(task[j].stats, summary.records)

\* C2 (as stated): while the three transforms run, the frame each of them was
\* given still has exactly the columns and values of the base frame of stage 1.
C2_BaseFrameUntouched ==
    fe_pc = "stage2" => \A k \in Kinds : ArgFrame(k) = Stage1(df_in)

\* C3: in every interleaving of the column-level steps of the three transforms on
\* one shared frame, their write sets are pairwise disjoint, none reads a column
\* another writes, and each returns the table it returns when run alone on the
\* base frame.
C3_InterleavingFree ==
    fe_pc = "stage2" =>
        \A k \in Kinds :
            /\ \A j \in Kinds \ {k} :
                  th[k].wr \cap th[j].wr = {} /\ th[k].rd \cap th[j].wr = {}
            /\ th[k].pc = "done" => th[k].ret = RunAlone(k, Stage1(df_in)).l.ret

ColIndex(cols, c) == CHOOSE i \in 1..Len(cols) : cols[i] = c

\* all three transforms have returned, and the columns of the shared frame show
\* that writes of the velocity and position-delta transforms were interleaved
C3_Witness ==
    /\ fe_pc = "stage2"
    /\ scheduler = "threads"
    /\ \A k \in Kinds : th[k].pc = "done"
    /\ th["force"].wr # {}
    /\ \E a \in th["velocity"].wr, b \in th["position"].wr, c \in th["velocity"].wr :
          /\ ColIndex(df.columns, a) < ColIndex(df.columns, b)
          /\ ColIndex(df.columns, b) < ColIndex(df.columns, c)

\* C4 (as stated): every derived velocity is 0 in every row whose dt is 0.
C4_ZeroDtGivesZero ==
    (fe_pc \in {"stage2", "accel", "done"} /\ th["velocity"].pc = "done") =>
        \A c \in th["velocity"].wr : \A i \in 1..NRows(df_in) :
            Stage1(df_in).data[Dt][i] = Zero => ArgFrame("velocity").data[c][i] = Zero

\* dt[i] = timestamp[i] - timestamp[i-1] for i > 1, timestamp = epoch of time
DtDiffs(f) ==
    \A i \in 2..NRows(f) :
        /\ f.data[Timestamp][i] = ToTimestamp(f.data[Time][i])
        /\ f.data[Timestamp][i - 1] = ToTimestamp(f.data[Time][i - 1])
        /\ f.data[Dt][i] = FSub(f.data[Timestamp][i], f.data[Timestamp][i - 1])

\* C5 (as stated): after stage 1, and in the returned frame, dt holds the
\* timestamp differences and 0 in the first row. Line 156 leaves the first row
\* unobserved (NaN) and nothing fills it.
C5_DtFirstRowZero ==
    /\ fe_pc \in {"stage2", "accel", "done"} => DtDiffs(df) /\ df.data[Dt][1] = Zero
    /\ fe_pc = "done" => DtDiffs(out) /\ out.data[Dt][1] = Zero

DerivedCols(f) ==
    {c \in SeqSet(f.columns) :
        c \in th["velocity"].wr \cup th["position"].wr \/ Head(c) = "a"}

\* C7: the first row of every derived velocity, position-delta and acceleration
\* column is 0, in the frames the transforms wrote and in the returned frame.
C7_FirstRowZero ==
    /\ fe_pc \in {"stage2", "accel", "done"} =>
          \A k \in {"velocity", "position"} : \A c \in th[k].wr :
              ArgFrame(k).data[c][1] = Zero
    /\ fe_pc = "done" => \A c \in DerivedCols(out) : out.data[c][1] = Zero

\* a returned frame whose position column starts at a non-zero value and moves
C7_Witness ==
    /\ fe_pc = "done"
    /\ NRows(out) = 2
    /\ \E c \in SeqSet(df_in.columns) :
          /\ IsPositionCol(c)
          /\ df_in.data[c][1] # Zero
          /\ out.data[<<"v">> \o c][2] # Zero
          /\ out.data[<<"d">> \o c][2] # Zero
          /\ out.data[<<"a">> \o c][2] # Zero

HasPosition(f, g) ==
    \E c \in SeqSet(f.columns) : IsPositionCol(c) /\ EndsWith(c, <<Digit(g)>>)

C9_FillIdempotent ==
    fe_pc = "refilled" => out = df

\* a frame of three rows in which the filler had two cells in a row to fill
C9_Witness ==
    /\ fe_pc = "refilled"
    /\ NRows(df_in) = 3
    /\ \E c \in SeqSet(df_in.columns) :
          IsNaN(df_in.data[c][2]) /\ IsNaN(df_in.data[c][3]) /\ ~IsNaN(df.data[c][3])

\* the rows of all sub-tables, as (sub-table, position) pairs
Slots ==
    UNION {{<<k, j>> : j \in 1..Len(run_uuid_df_map[k][2])} :
           k \in 1..Len(run_uuid_df_map)}
RowAt(s) == run_uuid_df_map[s[1]][2][s[2]]

\* C10: every input row is in exactly one sub-table, the one of its run_uuid; the
\* sub-tables hold input rows only, under distinct keys, in the input's order.
C10_Partition ==
    main_pc # "start" =>
        /\ \A i \in 1..Len(input) :
              /\ Cardinality({s \in Slots : RowAt(s) = input[i]}) = 1
              /\ \A s \in Slots : RowAt(s) = input[i]
                    => run_uuid_df_map[s[1]][1] = input[i].run_uuid
        /\ \A s \in Slots : InSeq(RowAt(s), input)
        /\ \A a \in 1..Len(run_uuid_df_map), b \in 1..Len(run_uuid_df_map) :
              a # b => run_uuid_df_map[a][1] # run_uuid_df_map[b][1]
        /\ \A s \in Slots, t \in Slots :
              (s[1] = t[1] /\ s[2] < t[2]) => RowAt(s).idx < RowAt(t).idx

\* a table split into three sub-tables, the first run seen holding two rows that
\* have a row of another run between them
C10_Witness ==
    /\ main_pc # "start"
    /\ Len(run_uuid_df_map) = 3
    /\ Len(run_uuid_df_map[1][2]) = 2
    /\ run_uuid_df_map[1][2][2].idx > run_uuid_df_map[1][2][1].idx + 1

====
